---- MODULE Spec2Model ----
(***************************************************************************)
(* Lifting a graph to a simplicial complex:                                *)
(* toponetx/transform/graph_to_simplicial_complex.py                       *)
(*                                                                         *)
(* A graph is a record [nodes, edges, nattr, eattr, graph]: nodes are      *)
(* integers (iterated in ascending order, the order of insertion), edges   *)
(* are two-element node sets, nattr / eattr map each node / edge to its    *)
(* attribute dict and graph is the graph-level attribute dict.  A dict is  *)
(* a function from a finite set of keys to values.  An optional argument   *)
(* (max_dim: int | None) is a sequence: << >> is None, <<d>> is the int d. *)
(***************************************************************************)
EXTENDS Integers, Sequences, FiniteSets, TLC

VARIABLES G, fn, max_dim, pow, work, SC, pc, exc

vars == <<G, fn, max_dim, pow, work, SC, pc, exc>>

\* ------------------------------------------------------------ bounds
MaxNodes == 4
MaxDim == 3
MaxPow == 3

\* ------------------------------------------------------------ helpers
None == << >>

Some(x) == <<x>>

EmptyDict == << >>

Range(s) == {s[i] : i \in 1..Len(s)}

MaxOf(S) == CHOOSE x \in S : \A y \in S : y <= x

MinOf(S) == CHOOSE x \in S : \A y \in S : x <= y

\* the elements of a set of integers, ascending
RECURSIVE SortedSeq(_)
SortedSeq(S) ==
    IF S = {} THEN << >>
    ELSE LET m == MinOf(S) IN <<m>> \o SortedSeq(S \ {m})

\* dict.update(other): keys of other overwrite, the rest is kept
DictUpdate(d, other) ==
    [k \in (DOMAIN d) \cup (DOMAIN other) |->
        IF k \in DOMAIN other THEN other[k] ELSE d[k]]

\* ------------------------------------------------------------ graphs
Neighbors(g, v) == {u \in g.nodes : {u, v} \in g.edges}

\* G.edges: each edge once, as the pair (u, v) in node order: for every node
\* u in turn, its edges to the nodes not yet visited
EdgeKey(e) == MinOf(e) * (MaxNodes + 2) + MaxOf(e)

RECURSIVE EdgeSeq(_, _)
EdgeSeq(g, nodes) ==
    IF nodes = << >> THEN << >>
    ELSE LET u == Head(nodes)
             later == SortedSeq({v \in Neighbors(g, u) : v > u})
         IN  [i \in 1..Len(later) |-> {u, later[i]}] \o EdgeSeq(g, Tail(nodes))

AllPairs(n) == {{u, v} : u, v \in 0..(n - 1)} \ {{u} : u \in 0..(n - 1)}

AttrConfigs == {"none", "test", "all"}

\* the attributes of the input graph: none; those of the repository's test
\* (graph label 12, node 0 label 5, edge (0, 1) weight 10); or one on
\* every node and edge
NodeAttr(cfg, v) ==
    IF cfg = "all" THEN [k \in {"label"} |-> 5 + v]
    ELSE IF cfg = "test" /\ v = 0 THEN [k \in {"label"} |-> 5]
    ELSE EmptyDict

EdgeAttr(cfg, e) ==
    IF cfg = "all" THEN [k \in {"weight"} |-> 10 + EdgeKey(e)]
    ELSE IF cfg = "test" /\ e = {0, 1} THEN [k \in {"weight"} |-> 10]
    ELSE EmptyDict

GraphAttr(cfg) ==
    IF cfg = "none" THEN EmptyDict ELSE [k \in {"label"} |-> 12]

MkGraph(n, E, cfg) ==
    [nodes |-> 0..(n - 1),
     edges |-> E,
     nattr |-> [v \in 0..(n - 1) |-> NodeAttr(cfg, v)],
     eattr |-> [e \in E |-> EdgeAttr(cfg, e)],
     graph |-> GraphAttr(cfg)]

Graphs ==
    UNION {{MkGraph(n, E, cfg) : E \in SUBSET AllPairs(n), cfg \in AttrConfigs} :
             n \in 0..MaxNodes}

\* a graph built by add_nodes_from(G) and add_edges_from(pairs): the nodes
\* of G, the given edges, no attribute
BareGraph(nodes, E) ==
    [nodes |-> nodes,
     edges |-> E,
     nattr |-> [v \in nodes |-> EmptyDict],
     eattr |-> [e \in E |-> EmptyDict],
     graph |-> EmptyDict]

\* complement that keeps the edges of G next to the new ones
complement_keep(g) ==
    BareGraph(g.nodes,
              g.edges \cup
              UNION {{{n, n2} : n2 \in {m \in g.nodes : m \notin Neighbors(g, n) /\ n # m}} :
                       n \in g.nodes})

\* nx.complement(G): an edge between every two distinct non-adjacent nodes
complement(g) ==
    BareGraph(g.nodes,
              UNION {{{n, n2} : n2 \in {m \in g.nodes : m \notin Neighbors(g, n) /\ n # m}} :
                       n \in g.nodes})

\* the nodes seen by a breadth-first search from n within k levels
RECURSIVE Within(_, _, _, _)
Within(g, seen, frontier, k) ==
    IF k = 0 \/ frontier = {} THEN seen
    ELSE LET next == UNION {Neighbors(g, v) : v \in frontier} \ seen
         IN  Within(g, seen \cup next, next, k - 1)

\* power that links the nodes at distance exactly k
power_exact(g, k) ==
    BareGraph(g.nodes,
              UNION {{{n, m} : m \in Within(g, {n}, {n}, k) \ Within(g, {n}, {n}, k - 1)} :
                       n \in g.nodes})

\* nx.power(G, k): an edge from every node n to each node a breadth-first
\* search from n reaches within k levels
power(g, k) ==
    BareGraph(g.nodes,
              UNION {{{n, m} : m \in Within(g, {n}, {n}, k) \ {n}} : n \in g.nodes})

\* nx.enumerate_all_cliques(G): a queue of (base, common later neighbours);
\* each popped base is yielded and extended by each of its common neighbours
LaterNbrs(g, u) == {v \in Neighbors(g, u) : v > u}

\* the loop without the filter that keeps only common neighbours
RECURSIVE CliqueLoop_nofilter(_, _, _)
CliqueLoop_nofilter(g, queue, out) ==
    IF queue = << >> THEN out
    ELSE LET base  == Head(queue)[1]
             cnbrs == Head(queue)[2]
             more  == [i \in 1..Len(cnbrs) |->
                         <<Append(base, cnbrs[i]),
                           SubSeq(cnbrs, i + 1, Len(cnbrs))>>]
         IN  CliqueLoop_nofilter(g, Tail(queue) \o more, Append(out, base))

RECURSIVE CliqueLoop(_, _, _)
CliqueLoop(g, queue, out) ==
    IF queue = << >> THEN out
    ELSE LET base  == Head(queue)[1]
             cnbrs == Head(queue)[2]
             more  == [i \in 1..Len(cnbrs) |->
                         <<Append(base, cnbrs[i]),
                           SelectSeq(SubSeq(cnbrs, i + 1, Len(cnbrs)),
                                     LAMBDA w : w \in LaterNbrs(g, cnbrs[i]))>>]
         IN  CliqueLoop(g, Tail(queue) \o more, Append(out, base))

enumerate_all_cliques(g) ==
    LET order == SortedSeq(g.nodes)
    IN  CliqueLoop(g,
                   [i \in 1..Len(order) |->
                       <<<<order[i]>>, SortedSeq(LaterNbrs(g, order[i]))>>],
                   << >>)

\* takewhile with the cut two sizes too late
RECURSIVE takewhile_late(_, _)
takewhile_late(d, cliques) ==
    IF cliques = << >> THEN << >>
    ELSE IF Len(Head(cliques)) <= d + 2
         THEN <<Head(cliques)>> \o takewhile_late(d, Tail(cliques))
         ELSE << >>

\* itertools.takewhile(lambda clique: len(clique) <= max_dim, cliques)
RECURSIVE takewhile(_, _)
takewhile(d, cliques) ==
    IF cliques = << >> THEN << >>
    ELSE IF Len(Head(cliques)) <= d
         THEN <<Head(cliques)>> \o takewhile(d, Tail(cliques))
         ELSE << >>

\* ------------------------------------------------------------ SimplicialComplex
\* SimplicialComplex(simplices): every non-empty subset of every given
\* simplex, each once, with an empty attribute dict; no complex attribute
SimplicialComplex(simplices) ==
    LET faces == UNION {(SUBSET Range(s)) \ {{}} : s \in Range(simplices)}
    IN  [simplices |-> [f \in faces |-> EmptyDict], complex |-> EmptyDict]

\* simplex in SC
Contains(sc, s) == s \in DOMAIN sc.simplices

\* SC.dim: the largest simplex size minus one (-1 for the empty complex)
dim(sc) ==
    IF DOMAIN sc.simplices = {} THEN -1
    ELSE MaxOf({Cardinality(s) : s \in DOMAIN sc.simplices}) - 1

\* SC[simplex].update(attrs): a KeyError when the simplex is not in SC
GetItemUpdate(sc, s, attrs) ==
    IF Contains(sc, s)
    THEN [ok |-> TRUE,
          sc |-> [sc EXCEPT !.simplices[s] = DictUpdate(@, attrs)]]
    ELSE [ok |-> FALSE, sc |-> sc]

\* ------------------------------------------------------------ graph_to_clique_complex
\* construction that ignores max_dim
BuildCliques_nocut(g, md) ==
    SimplicialComplex(enumerate_all_cliques(g))

\* lines 59-66: enumerate, cut at max_dim, construct
BuildCliques(g, md) ==
    LET cliques == enumerate_all_cliques(g)
    IN  SimplicialComplex(IF md # None THEN takewhile(md[1], cliques) ELSE cliques)

\* for node in G.nodes: SC[[node]].update(G.nodes[node])
RECURSIVE CopyNodeAttrs(_, _, _)
CopyNodeAttrs(g, nodes, r) ==
    IF nodes = << >> \/ ~r.ok THEN r
    ELSE CopyNodeAttrs(g, Tail(nodes),
                       GetItemUpdate(r.sc, {Head(nodes)}, g.nattr[Head(nodes)]))

\* edge loop that copies nothing
CopyEdgeAttrs_skip(g, edges, r) == r

\* for edge in G.edges: SC[edge].update(G.edges[edge])
RECURSIVE CopyEdgeAttrs(_, _, _)
CopyEdgeAttrs(g, edges, r) ==
    IF edges = << >> \/ ~r.ok THEN r
    ELSE CopyEdgeAttrs(g, Tail(edges),
                       GetItemUpdate(r.sc, Head(edges), g.eattr[Head(edges)]))

\* SC.complex.update(G.graph)
CopyGraphAttrs(g, r) ==
    IF ~r.ok THEN r
    ELSE [r EXCEPT !.sc.complex = DictUpdate(@, g.graph)]

\* lines 68-73
CopyAttrs(g, sc) ==
    CopyGraphAttrs(g,
        CopyEdgeAttrs(g, EdgeSeq(g, SortedSeq(g.nodes)),
            CopyNodeAttrs(g, SortedSeq(g.nodes), [ok |-> TRUE, sc |-> sc])))

\* ------------------------------------------------------------ graph_to_neighbor_complex
\* the neighbours without the node itself
NeighborSimplices_nonode(g) ==
    LET order == SortedSeq(g.nodes)
    IN  [i \in 1..Len(order) |-> SortedSeq(Neighbors(g, order[i]))]

\* lines 33-36: simplices.append(list(G.neighbors(node)) + [node])
NeighborSimplices(g) ==
    LET order == SortedSeq(g.nodes)
    IN  [i \in 1..Len(order) |->
            SortedSeq(Neighbors(g, order[i])) \o <<order[i]>>]

\* ------------------------------------------------------------ state machine
MaxDims == {None} \cup {Some(d) : d \in (-1)..MaxDim}

Pows == (-1)..MaxPow

Init ==
    /\ G \in Graphs
    /\ fn = "none"
    /\ max_dim = None
    /\ pow = 1
    /\ work = None
    /\ SC = None
    /\ pc = "idle"
    /\ exc = "none"

\* graph_to_clique_complex(G, max_dim) is entered with the caller's graph
CallClique(md) ==
    /\ pc = "idle"
    /\ fn' = "clique"
    /\ max_dim' = md
    /\ work' = Some(G)
    /\ pc' = "clique"
    /\ UNCHANGED <<G, pow, SC, exc>>

\* graph_to_independent_set_complex(G, max_dim)
CallIndependentSet(md) ==
    /\ pc = "idle"
    /\ fn' = "independent_set"
    /\ max_dim' = md
    /\ work' = Some(complement(G))
    /\ pc' = "clique"
    /\ UNCHANGED <<G, pow, SC, exc>>

\* graph_to_power_complex that rejects only negative powers
CallPower_zero(p, md) ==
    /\ pc = "idle"
    /\ fn' = "power"
    /\ pow' = p
    /\ max_dim' = md
    /\ IF p < 0
       THEN /\ pc' = "raised"
            /\ exc' = "ValueError"
            /\ UNCHANGED work
       ELSE /\ pc' = "clique"
            /\ work' = Some(power(G, p))
            /\ UNCHANGED exc
    /\ UNCHANGED <<G, SC>>

\* graph_to_power_complex(G, pow, max_dim): lines 124-126
CallPower(p, md) ==
    /\ pc = "idle"
    /\ fn' = "power"
    /\ pow' = p
    /\ max_dim' = md
    /\ IF p < 1
       THEN /\ pc' = "raised"
            /\ exc' = "ValueError"
            /\ UNCHANGED work
       ELSE /\ pc' = "clique"
            /\ work' = Some(power(G, p))
            /\ UNCHANGED exc
    /\ UNCHANGED <<G, SC>>

\* graph_to_neighbor_complex(G)
CallNeighbor ==
    /\ pc = "idle"
    /\ fn' = "neighbor"
    /\ SC' = Some(SimplicialComplex(NeighborSimplices(G)))
    /\ pc' = "done"
    /\ UNCHANGED <<G, max_dim, pow, work, exc>>

\* graph_to_clique_complex, lines 59-66
Construct ==
    /\ pc = "clique"
    /\ SC' = Some(BuildCliques(work[1], max_dim))
    /\ pc' = "attrs"
    /\ UNCHANGED <<G, fn, max_dim, pow, work, exc>>

\* graph_to_clique_complex, lines 68-75
Attributes ==
    /\ pc = "attrs"
    /\ LET r == CopyAttrs(work[1], SC[1])
       IN  /\ SC' = Some(r.sc)
           /\ IF r.ok
              THEN pc' = "done" /\ UNCHANGED exc
              ELSE pc' = "raised" /\ exc' = "KeyError"
    /\ UNCHANGED <<G, fn, max_dim, pow, work>>

Next ==
    \/ \E md \in MaxDims : CallClique(md)
    \/ \E md \in MaxDims : CallIndependentSet(md)
    \/ \E p \in Pows, md \in MaxDims : CallPower(p, md)
    \/ CallNeighbor
    \/ Construct
    \/ Attributes

Spec == Init /\ [][Next]_vars

TypeOK ==
    /\ pc \in {"idle", "clique", "attrs", "done", "raised"}
    /\ exc \in {"none", "ValueError", "KeyError"}

\* ------------------------------------------------------------ properties
Simplices(sc) == DOMAIN sc.simplices

Adjacent(g, u, v) == {u, v} \in g.edges

\* the non-empty sets of pairwise adjacent nodes
Cliques(g) ==
    {S \in (SUBSET g.nodes) \ {{}} :
        \A u \in S : \A v \in S \ {u} : Adjacent(g, u, v)}

\* the non-empty sets of pairwise non-adjacent nodes
IndependentSets(g) ==
    {S \in (SUBSET g.nodes) \ {{}} :
        \A u \in S : \A v \in S \ {u} : ~Adjacent(g, u, v)}

LargestSize(family) ==
    IF family = {} THEN 0 ELSE MaxOf({Cardinality(S) : S \in family})

MaxDegree(g) == MaxOf({Cardinality(Neighbors(g, v)) : v \in g.nodes})

\* the largest finite shortest-path distance between two nodes
Diameter(g) ==
    MaxOf({0} \cup
          {k \in 1..Cardinality(g.nodes) :
              \E u \in g.nodes :
                  Within(g, {u}, {u}, k) # Within(g, {u}, {u}, k - 1)})

\* d carries each key of attrs with its value
Carries(d, attrs) ==
    \A k \in DOMAIN attrs : k \in DOMAIN d /\ d[k] = attrs[k]

Built == SC # None

Returned == pc = "done"

\* C1: with a bound max_dim, the complex returned by graph_to_clique_complex
\* holds exactly the cliques of G of at most max_dim + 1 nodes
C1_KeepsUpToMaxDimPlusOne ==
    (fn = "clique" /\ max_dim # None /\ Returned) =>
        Simplices(SC[1]) = {S \in Cliques(G) : Cardinality(S) <= max_dim[1] + 1}

\* C2: graph_to_clique_complex with a bound never raises: a node or an edge
\* whose simplex was pruned is skipped by the attribute copy
C2_PrunedAreSkipped ==
    (fn = "clique" /\ max_dim # None /\ max_dim[1] >= 0) => pc # "raised"

\* C3: graph_to_power_complex raises ValueError for pow < 1 before the power
\* graph is computed and before a complex is constructed, and never raises
\* it for pow >= 1
C3_PowValidated ==
    fn = "power" =>
        /\ pow < 1 => (pc = "raised" /\ exc = "ValueError" /\ work = None /\ ~Built)
        /\ pow >= 1 => (exc # "ValueError" /\ work = Some(power(G, pow)))

C3_Witness ==
    fn = "power" /\ pow < 1 /\ pc = "raised" /\ G.edges # {}

\* C4 as stated: a negative max_dim makes every builder that takes it fail
\* with an invalid-argument error before its preprocessing step runs
C4_NegativeMaxDimRejected ==
    (fn \in {"clique", "independent_set", "power"} /\ max_dim # None /\ max_dim[1] < 0) =>
        (pc = "raised" /\ exc = "ValueError" /\ work = None /\ ~Built)

\* C4 amended: only pow is validated.  A negative max_dim is never rejected:
\* ValueError comes from pow < 1 alone, the preprocessing step runs, the size
\* cut keeps no clique, and for the empty graph the empty complex is returned
C4_NegativeMaxDimNotValidated ==
    (fn \in {"clique", "independent_set", "power"} /\ max_dim # None /\ max_dim[1] < 0) =>
        /\ exc = "ValueError" => (fn = "power" /\ pow < 1)
        /\ (fn = "power" => pow >= 1) => work # None
        /\ Built => Simplices(SC[1]) = {}
        /\ (G.nodes = {} /\ pc = "raised") => exc = "ValueError"

C4_Witness ==
    /\ fn \in {"clique", "independent_set"}
    /\ max_dim # None /\ max_dim[1] < 0
    /\ Returned
    /\ Simplices(SC[1]) = {}

\* C5: without a bound, the simplices of graph_to_clique_complex(G) are
\* exactly the cliques of G and its dimension is the largest clique size - 1
C5_UnboundedIsCliqueComplex ==
    (fn = "clique" /\ max_dim = None) =>
        /\ pc # "raised"
        /\ Built =>
            /\ Simplices(SC[1]) = Cliques(G)
            /\ dim(SC[1]) = LargestSize(Cliques(G)) - 1

C5_Witness ==
    /\ fn = "clique" /\ max_dim = None /\ Returned
    /\ dim(SC[1]) = 2
    /\ Cardinality(G.nodes) = 4
    /\ Cliques(G) # (SUBSET G.nodes) \ {{}}

\* C6: with a bound d, graph_to_clique_complex(G, d) has dimension <= d and
\* every simplex of it is a simplex of the unbounded complex
C6_BoundedWithinUnbounded ==
    (fn = "clique" /\ max_dim # None /\ Built) =>
        /\ dim(SC[1]) <= max_dim[1]
        /\ Simplices(SC[1]) \subseteq Simplices(BuildCliques(G, None))

C6_Witness ==
    /\ fn = "clique" /\ max_dim # None /\ Returned
    /\ Simplices(SC[1]) # {}
    /\ Simplices(SC[1]) # Simplices(BuildCliques(G, None))

\* C7: graph_to_independent_set_complex(G, max_dim) has the simplex set of
\* graph_to_clique_complex(complement(G), max_dim); without a bound these
\* are exactly the non-empty sets of pairwise non-adjacent nodes of G
C7_IndependentSetComplex ==
    (fn = "independent_set" /\ Built) =>
        /\ Simplices(SC[1]) = Simplices(BuildCliques(complement(G), max_dim))
        /\ max_dim = None => Simplices(SC[1]) = IndependentSets(G)

\* the 4-cycle 0-1-2-3-0: dimension 1 with (0, 2) and (1, 3)
C7_Witness ==
    /\ fn = "independent_set" /\ max_dim = None /\ Returned
    /\ G.nodes = 0..3
    /\ G.edges = {{0, 1}, {1, 2}, {2, 3}, {0, 3}}
    /\ dim(SC[1]) = 1
    /\ {0, 2} \in Simplices(SC[1])
    /\ {1, 3} \in Simplices(SC[1])

\* C8: graph_to_neighbor_complex(G) holds exactly the non-empty subsets of
\* the sets {v} + neighbors(v), and its dimension is the largest degree
C8_NeighborComplex ==
    (fn = "neighbor" /\ Returned) =>
        /\ Simplices(SC[1]) =
              UNION {(SUBSET ({v} \cup Neighbors(G, v))) \ {{}} : v \in G.nodes}
        /\ G.nodes # {} => dim(SC[1]) = MaxDegree(G)

\* the 4-cycle: dimension 2, (0, 2) a simplex though not an edge
C8_Witness ==
    /\ fn = "neighbor" /\ Returned
    /\ dim(SC[1]) = 2
    /\ {0, 2} \in Simplices(SC[1])
    /\ {0, 2} \notin G.edges

\* C9: after graph_to_clique_complex(G) without a bound every node's
\* attributes are on its size-1 simplex, every edge's on its size-2 simplex
\* and the graph's on the complex
C9_AttributesCopied ==
    (fn = "clique" /\ max_dim = None /\ Returned) =>
        /\ \A n \in G.nodes : Carries(SC[1].simplices[{n}], G.nattr[n])
        /\ \A e \in G.edges : Carries(SC[1].simplices[e], G.eattr[e])
        /\ Carries(SC[1].complex, G.graph)

\* C9: ... and the call leaves G, with its attribute dicts, as it was
C9_AttributesCopiedGraphUnchanged ==
    [](C9_AttributesCopied) /\ [][G' = G]_vars

C9_Witness ==
    /\ fn = "clique" /\ max_dim = None /\ Returned
    /\ \E e \in G.edges : SC[1].simplices[e] # EmptyDict
    /\ \E e \in G.edges : SC[1].simplices[e] = EmptyDict
    /\ SC[1].simplices[{0}] # EmptyDict
    /\ SC[1].complex # EmptyDict

\* the complex graph_to_power_complex(g, k) returns for k >= 1, no bound
PowerComplex(g, k) ==
    CopyAttrs(power(g, k), BuildCliques(power(g, k), None)).sc

\* C10: without a bound, the dimension of graph_to_power_complex(G, k) does
\* not decrease from k - 1 to k, at k = 1 the simplices are those of
\* graph_to_clique_complex(G), and from k = diameter(G) on the complex is
\* the one of k = diameter(G)
C10_PowerMonotone ==
    (fn = "power" /\ max_dim = None /\ Returned) =>
        /\ pow = 1 => Simplices(SC[1]) = Simplices(BuildCliques(G, None))
        /\ pow >= 2 => dim(SC[1]) >= dim(PowerComplex(G, pow - 1))
        /\ pow >= Diameter(G) =>
              SC[1] = PowerComplex(G, IF Diameter(G) < 1 THEN 1 ELSE Diameter(G))

\* the square at pow = 3: dimension 3 as at pow = 2 (its diameter), 1 at pow = 1
C10_Witness ==
    /\ fn = "power" /\ max_dim = None /\ Returned
    /\ G.edges = {{0, 1}, {1, 2}, {2, 3}, {0, 3}}
    /\ pow = 3
    /\ Diameter(G) = 2
    /\ dim(SC[1]) = 3
    /\ dim(PowerComplex(G, 1)) = 1

====
